---- MODULE Spec2Model ----
(***************************************************************************)
(* Model of the fast-food dashboard script (src/Final Project/app.py).     *)
(*                                                                         *)
(* Text is a sequence of character codes, so that str.strip, str.lower and *)
(* the comparisons of the filters are computed, not assumed.  A cell of    *)
(* the table is a record [kind, val]: kind "str" (val = the characters),   *)
(* "nan" (a missing cell) or "num" (a numeric cell).  A DataFrame is the   *)
(* sequence of its rows in index order; a row is a record of cells.        *)
(*                                                                         *)
(* Two specifications:                                                     *)
(*   Spec    the Streamlit session: the script runs top to bottom, the     *)
(*           user changes a widget, the script runs again;                 *)
(*   FnSpec  one call of one function of the script on inputs drawn from   *)
(*           bounded sets.                                                 *)
(***************************************************************************)
EXTENDS Integers, Sequences, FiniteSets

VARIABLES
    build,                      \* how the build's sort places equal keys
    file,                       \* the content of data.csv
    pc,                         \* position of the script run
    widgets,                    \* the widget values the sidebar holds
    df,                         \* line 61
    selected_province,          \* line 71
    filtered_df,                \* lines 83 and 230-233
    available_cities,           \* lines 86-92
    selected_city,              \* line 95
    filtered_city_province_df,  \* line 108
    province_counts,            \* lines 122-123
    map_data,                   \* line 126
    categories_selected,        \* line 149
    filtered_data,              \* line 165
    category_counts,            \* line 166
    pie_data,                   \* line 190
    type_counts,                \* line 191
    top_10_restaurants_data,    \* line 239
    top_10_data,                \* line 246
    call,                       \* FnSpec: the function called and its arguments
    ret,                        \* FnSpec: what the call returned
    returned                    \* FnSpec: whether the call has returned

script == <<df, selected_province, filtered_df, available_cities, selected_city,
            filtered_city_province_df, province_counts, map_data,
            categories_selected, filtered_data, category_counts, pie_data,
            type_counts, top_10_restaurants_data, top_10_data>>

session == <<file, pc, widgets>>

harness == <<call, ret, returned>>

vars == <<build, session, script, harness>>

-----------------------------------------------------------------------------
(* Bounds of the model *)

\* rows of a file given to the de-duplication
MaxRows == 3

\* rows of the file of a session
MaxSessionRows == 2

\* rows of a table given to a filter or to a count
MaxTableRows == 2

\* characters of a category text given to the cleaning
MaxStrLen == 3

\* distinct names beyond the ten that the top-ten keeps
MaxExtraNames == 2

\* names that occur twice in a top-ten dataset
MaxHeavy == 2

-----------------------------------------------------------------------------
(* Cells and text *)

Str(s) == [kind |-> "str", val |-> s]

NaN == [kind |-> "nan", val |-> <<>>]

Num(n) == [kind |-> "num", val |-> <<n>>]

\* a script variable not assigned yet in this run
Unset == [kind |-> "unset", val |-> <<>>]

\* isinstance(x, str)
isinstance_str(x) == x.kind = "str"

\* the characters str.strip() removes (ASCII range)
Whitespace == {9, 10, 11, 12, 13, 28, 29, 30, 31, 32}

RECURSIVE lstrip(_)
lstrip(s) ==
    IF s # <<>> /\ Head(s) \in Whitespace THEN lstrip(Tail(s)) ELSE s

RECURSIVE rstrip(_)
rstrip(s) ==
    IF s # <<>> /\ s[Len(s)] \in Whitespace
    THEN rstrip(SubSeq(s, 1, Len(s) - 1))
    ELSE s

\* str.strip()
strip(s) == rstrip(lstrip(s))

\* str.lower() on ASCII text: 'A'..'Z' (65..90) become 'a'..'z'
lower(s) == [i \in 1..Len(s) |-> IF s[i] \in 65..90 THEN s[i] + 32 ELSE s[i]]

\* Series.str.lower(): text is lower-cased, any other cell becomes NaN
series_str_lower(x) == IF isinstance_str(x) THEN Str(lower(x.val)) ELSE NaN

\* elementwise ==: a missing cell equals nothing, itself included
eq(x, y) == x.kind # "nan" /\ y.kind # "nan" /\ x = y

\* "All" and "LA"
All == Str(<<65, 108, 108>>)

LA == Str(<<76, 65>>)

\* order of text keys in a sorted grouping: code points, shorter prefix first
RECURSIVE TextLess(_, _)
TextLess(a, b) ==
    IF a = <<>> THEN b # <<>>
    ELSE IF b = <<>> THEN FALSE
    ELSE IF Head(a) # Head(b) THEN Head(a) < Head(b)
    ELSE TextLess(Tail(a), Tail(b))

Min(a, b) == IF a < b THEN a ELSE b

\* the values of a column, as a sequence
column(rows, col) == [i \in 1..Len(rows) |-> rows[i][col]]

\* Series.unique().tolist(): the distinct cells in order of first appearance
RECURSIVE unique(_)
unique(s) ==
    IF s = <<>> THEN <<>>
    ELSE LET init == unique(SubSeq(s, 1, Len(s) - 1))
             x == s[Len(s)]
         IN  IF \E i \in 1..Len(init) : init[i] = x THEN init ELSE Append(init, x)

Range(s) == {s[i] : i \in 1..Len(s)}

-----------------------------------------------------------------------------
(* load_and_clean_data, lines 21-45 *)

\* DataFrame.drop_duplicates(subset=["id"], keep="last"): a row stays when no
\* later row has its id (missing ids count as equal to each other)
drop_duplicates_firstkept(rows) ==
    LET Keep(i) == \A j \in 1..(i - 1) : rows[j].id # rows[i].id
        RECURSIVE Build(_)
        Build(i) == IF i > Len(rows) THEN <<>>
                    ELSE IF Keep(i) THEN <<rows[i]>> \o Build(i + 1)
                    ELSE Build(i + 1)
    IN  Build(1)

drop_duplicates(rows) ==
    LET Keep(i) == \A j \in (i + 1)..Len(rows) : rows[j].id # rows[i].id
        RECURSIVE Build(_)
        Build(i) == IF i > Len(rows) THEN <<>>
                    ELSE IF Keep(i) THEN <<rows[i]>> \o Build(i + 1)
                    ELSE Build(i + 1)
    IN  Build(1)

\* the lambda of line 39
clean_cell_lstrip_only(x) == IF isinstance_str(x) THEN Str(lower(lstrip(x.val))) ELSE x

clean_cell(x) == IF isinstance_str(x) THEN Str(lower(strip(x.val))) ELSE x

NoneDF == [isNone |-> TRUE, rows |-> <<>>]

DataFrame(rows) == [isNone |-> FALSE, rows |-> rows]

\* the kinds of data.csv for which a statement of the try block raises
LoadFailures == {"missing", "empty", "no_id_column", "unreadable"}

load_and_clean_data(f) ==
    IF f.kind \in LoadFailures
    THEN NoneDF
    ELSE LET deduped == drop_duplicates(f.rows)
         IN  DataFrame([i \in 1..Len(deduped) |->
                 [deduped[i] EXCEPT !.categories = clean_cell(@)]])

-----------------------------------------------------------------------------
(* Filters *)

\* df[mask]: the rows that satisfy the mask, in index order
RECURSIVE where(_, _)
where(rows, mask) ==
    IF rows = <<>> THEN <<>>
    ELSE (IF mask[1] THEN <<Head(rows)>> ELSE <<>>)
         \o where(Tail(rows), Tail(mask))

\* lines 75-79; df is the module-level table
filter_data_by_province(province) ==
    IF province = LA
    THEN df.rows
    ELSE where(df.rows, [i \in 1..Len(df.rows) |-> eq(df.rows[i].province, province)])

\* lines 99-104
filter_data_by_city_province_city_only(d, city, province) ==
    IF city = All
    THEN where(d, [i \in 1..Len(d) |-> eq(d[i].province, province)])
    ELSE where(d, [i \in 1..Len(d) |->
                     eq(series_str_lower(d[i].city), Str(lower(city.val)))])

filter_data_by_city_province(d, city, province) ==
    IF city = All
    THEN where(d, [i \in 1..Len(d) |-> eq(d[i].province, province)])
    ELSE where(d, [i \in 1..Len(d) |->
                     /\ eq(series_str_lower(d[i].city), Str(lower(city.val)))
                     /\ eq(series_str_lower(d[i].province), Str(lower(province.val)))])

\* Series.isin(values): membership, a missing cell matching a missing value
isin(x, values) == x \in Range(values)

\* lines 153-161; df is the module-level table
get_category_data_shared_view(categories_selected_, selected_province_) ==
    LET base == filtered_city_province_df
        category_filtered ==
            IF categories_selected_ = <<>>
            THEN base
            ELSE where(base, [i \in 1..Len(base) |->
                                isin(base[i].categories, categories_selected_)])
    IN  where(category_filtered, [i \in 1..Len(category_filtered) |->
                  eq(category_filtered[i].province, selected_province_)])

get_category_data(categories_selected_, selected_province_) ==
    LET category_filtered ==
            IF categories_selected_ = <<>>
            THEN df.rows
            ELSE where(df.rows, [i \in 1..Len(df.rows) |->
                                   isin(df.rows[i].categories, categories_selected_)])
    IN  where(category_filtered, [i \in 1..Len(category_filtered) |->
                  eq(category_filtered[i].province, selected_province_)])

\* lines 182-186
get_pie_chart_data(categories_selected_) ==
    IF categories_selected_ = <<>>
    THEN df.rows
    ELSE where(df.rows, [i \in 1..Len(df.rows) |->
                           isin(df.rows[i].categories, categories_selected_)])

-----------------------------------------------------------------------------
(* Aggregation *)

\* number of rows whose column col holds the cell x
count_of(rows, col, x) == Cardinality({i \in 1..Len(rows) : rows[i][col] = x})

\* the text cells of a set in ascending order
RECURSIVE ascending(_)
ascending(S) ==
    IF S = {} THEN <<>>
    ELSE LET m == CHOOSE x \in S : \A y \in S \ {x} : TextLess(x.val, y.val)
         IN  <<m>> \o ascending(S \ {m})

\* Series.sort_values / DataFrame.sort_values(by="count", ascending=False) with
\* the default kind: count descending.  The default sort is not a stable one, so
\* where equal counts land depends on the build: "stable" leaves them in the
\* order they came in, "unstable" is a build that leaves them reversed.
RECURSIVE sort_values(_, _)
sort_values(entries, b) ==
    IF entries = <<>> THEN <<>>
    ELSE LET top == {i \in 1..Len(entries) :
                        \A j \in 1..Len(entries) : entries[j].count <= entries[i].count}
             k == IF b = "stable"
                  THEN CHOOSE i \in top : \A j \in top : i <= j
                  ELSE CHOOSE i \in top : \A j \in top : i >= j
         IN  <<entries[k]>>
             \o sort_values(SubSeq(entries, 1, k - 1)
                            \o SubSeq(entries, k + 1, Len(entries)), b)

\* Series.value_counts(): the distinct non-missing cells in order of first
\* appearance with their counts, then sorted by count descending
value_counts_keep_missing(rows, col, b) ==
    LET keys == unique(column(rows, col))
    IN  sort_values([i \in 1..Len(keys) |->
                       [key |-> keys[i], count |-> count_of(rows, col, keys[i])]], b)

value_counts(rows, col, b) ==
    LET all_keys == unique(column(rows, col))
        keys == SelectSeq(all_keys, LAMBDA x : x # NaN)
    IN  sort_values([i \in 1..Len(keys) |->
                       [key |-> keys[i], count |-> count_of(rows, col, keys[i])]], b)

\* groupby([col]).size().reset_index(name="count"): the distinct non-missing
\* keys in ascending order with their counts
groupby_size_unsorted(rows, col) ==
    LET all_keys == unique(column(rows, col))
        keys == SelectSeq(all_keys, LAMBDA x : x # NaN)
    IN  [i \in 1..Len(keys) |->
            [key |-> keys[i], count |-> count_of(rows, col, keys[i])]]

groupby_size(rows, col) ==
    LET keys == ascending(Range(column(rows, col)) \ {NaN})
    IN  [i \in 1..Len(keys) |->
            [key |-> keys[i], count |-> count_of(rows, col, keys[i])]]

\* line 166: groupby(["province", "categories"]).size(): the pairs present, with
\* neither cell missing, ordered by province and then by category
groupby_province_categories(rows) ==
    LET provinces == ascending(Range(column(rows, "province")) \ {NaN})
        of_province(p) ==
            LET sub == where(rows, [i \in 1..Len(rows) |-> rows[i].province = p])
                cats == ascending(Range(column(sub, "categories")) \ {NaN})
            IN  [i \in 1..Len(cats) |->
                    [province |-> p, categories |-> cats[i],
                     count |-> count_of(sub, "categories", cats[i])]]
        RECURSIVE Concat(_)
        Concat(i) == IF i > Len(provinces) THEN <<>>
                     ELSE of_province(provinces[i]) \o Concat(i + 1)
    IN  Concat(1)

\* head(10) of lines 206 and 215
TopN == 10

head_one_more(s) == SubSeq(s, 1, Min(TopN + 1, Len(s)))

head(s) == SubSeq(s, 1, Min(TopN, Len(s)))

\* lines 203-207
get_top_restaurants_by_city(d, city, b) ==
    LET city_data == where(d, [i \in 1..Len(d) |->
                         eq(series_str_lower(d[i].city), Str(lower(city.val)))])
    IN  head(value_counts(city_data, "name", b))

\* lines 211-216
get_top_10_restaurants(d, b) == head(sort_values(groupby_size(d, "name"), b))

\* lines 220-223
get_restaurants_by_top_10(d, top_10_restaurants) ==
    where(d, [i \in 1..Len(d) |-> isin(d[i].name, column(top_10_restaurants, "key"))])

\* lines 122-126: the per-province counts of a table, and the table with each
\* row's count joined to it (a left merge: no count for a missing province)
province_counts_of(d, b) == value_counts(d, "province", b)

map_data_of(d, counts) ==
    [i \in 1..Len(d) |->
        [row |-> d[i],
         count |-> IF \E k \in 1..Len(counts) : eq(counts[k].key, d[i].province)
                   THEN (CHOOSE e \in Range(counts) : e.key = d[i].province).count
                   ELSE 0]]

-----------------------------------------------------------------------------
(* Inputs *)

\* the orders in which a build's sort can leave equal counts
Builds == {"stable", "unstable"}

Row(id, name, city, province, categories) ==
    [id |-> id, name |-> name, city |-> city, province |-> province,
     categories |-> categories]

SeqsUpTo(S, n) == UNION {[1..k -> S] : k \in 0..n}

\* characters of the texts given to the cleaning: tab, space, 'A', 'b'
TextChars == {9, 32, 65, 98}

\* files whose rows repeat identifiers (1, 2 or a missing one)
DedupRows ==
    {Row(id, name, Str(<<88>>), Str(<<67, 65>>), Str(<<32, 65>>)) :
        id \in {Num(1), Num(2), NaN}, name \in {Str(<<65>>), Str(<<66>>)}}

\* one-row files over every category cell: text, missing, numeric
TextRows ==
    {Row(Num(1), Str(<<65>>), Str(<<88>>), Str(<<67, 65>>), c) :
        c \in {Str(t) : t \in SeqsUpTo(TextChars, MaxStrLen)} \cup {NaN, Num(7)}}

OkFile(rows) == [kind |-> "ok", rows |-> rows]

FailedFiles == {[kind |-> k, rows |-> <<>>] : k \in LoadFailures}

CleanFiles ==
    {OkFile(rows) : rows \in SeqsUpTo(DedupRows, MaxRows) \cup [1..1 -> TextRows]}
    \cup FailedFiles

\* tables for the city and province filter and for the per-province count:
\* cities "X", "x" or missing, provinces "CA", "ca" or missing
FilterRows ==
    {Row(Num(1), Str(<<65>>), city, province, Str(<<97>>)) :
        city \in {Str(<<88>>), Str(<<120>>), NaN},
        province \in {Str(<<67, 65>>), Str(<<99, 97>>), NaN}}

FilterTables == SeqsUpTo(FilterRows, MaxTableRows)

CityArgs == {All, Str(<<88>>), Str(<<120>>)}

ProvinceArgs == {All, Str(<<67, 65>>), Str(<<99, 97>>)}

\* tables for the top ten: the names 'A', 'B', ... (k of them), each once, the
\* names of `heavy` a second time, met in ascending or in descending order
NameCell(i) == Str(<<64 + i>>)

NameRow(i) == Row(Num(i), NameCell(i), Str(<<88>>), Str(<<67, 65>>), Str(<<97>>))

Reverse(s) == [i \in 1..Len(s) |-> s[Len(s) + 1 - i]]

NameTable(k, heavy, order) ==
    LET once == [i \in 1..k |-> NameRow(i)]
        twice == SelectSeq(once, LAMBDA r : \E i \in heavy : r = NameRow(i))
    IN  IF order = "ascending" THEN once \o twice ELSE Reverse(once \o twice)

NameTables ==
    {NameTable(k, heavy, order) :
        k \in 0..(TopN + MaxExtraNames),
        heavy \in {h \in SUBSET (1..(TopN + MaxExtraNames)) : Cardinality(h) <= MaxHeavy},
        order \in {"ascending", "descending"}}

\* tables for the top ten of a city: names 'A', 'B', cities "X", "x", "Y"
CityNameRows ==
    {Row(Num(1), name, city, Str(<<67, 65>>), Str(<<97>>)) :
        name \in {Str(<<65>>), Str(<<66>>)},
        city \in {Str(<<88>>), Str(<<120>>), Str(<<89>>)}}

Call(fn, f, d, city, province) ==
    [fn |-> fn, file |-> f, d |-> d, city |-> city, province |-> province]

NoFile == [kind |-> "none", rows |-> <<>>]

Calls ==
    {Call("load_and_clean_data", f, <<>>, Unset, Unset) : f \in CleanFiles}
    \cup {Call("filter_data_by_city_province", NoFile, d, c, p) :
            d \in FilterTables, c \in CityArgs, p \in ProvinceArgs}
    \cup {Call("province_counts", NoFile, d, Unset, Unset) : d \in FilterTables}
    \cup {Call("get_top_10_restaurants", NoFile, d, Unset, Unset) : d \in NameTables}
    \cup {Call("get_top_restaurants_by_city", NoFile, d, Str(<<88>>), Unset) :
            d \in SeqsUpTo(CityNameRows, MaxTableRows)}

-----------------------------------------------------------------------------
(* FnSpec: one call of one function *)

ScriptUnset ==
    /\ df = NoneDF
    /\ selected_province = Unset
    /\ filtered_df = <<>>
    /\ available_cities = <<>>
    /\ selected_city = Unset
    /\ filtered_city_province_df = <<>>
    /\ province_counts = <<>>
    /\ map_data = <<>>
    /\ categories_selected = <<>>
    /\ filtered_data = <<>>
    /\ category_counts = <<>>
    /\ pie_data = <<>>
    /\ type_counts = <<>>
    /\ top_10_restaurants_data = <<>>
    /\ top_10_data = <<>>

DefaultWidgets == [province |-> All, city |-> All, categories |-> <<>>]

FnInit ==
    /\ build \in Builds
    /\ call \in Calls
    /\ ret = <<>>
    /\ returned = FALSE
    /\ file = NoFile
    /\ pc = "call"
    /\ widgets = DefaultWidgets
    /\ ScriptUnset

Return(value) ==
    /\ ~returned
    /\ ret' = value
    /\ returned' = TRUE
    /\ UNCHANGED <<build, call, session, script>>

CallLoadAndCleanData ==
    /\ call.fn = "load_and_clean_data"
    /\ Return(load_and_clean_data(call.file))

CallFilterDataByCityProvince ==
    /\ call.fn = "filter_data_by_city_province"
    /\ Return(filter_data_by_city_province(call.d, call.city, call.province))

CallProvinceCounts ==
    /\ call.fn = "province_counts"
    /\ Return(province_counts_of(call.d, build))

CallGetTop10Restaurants ==
    /\ call.fn = "get_top_10_restaurants"
    /\ Return(get_top_10_restaurants(call.d, build))

CallGetTopRestaurantsByCity ==
    /\ call.fn = "get_top_restaurants_by_city"
    /\ Return(get_top_restaurants_by_city(call.d, call.city, build))

FnNext ==
    \/ CallLoadAndCleanData
    \/ CallFilterDataByCityProvince
    \/ CallProvinceCounts
    \/ CallGetTop10Restaurants
    \/ CallGetTopRestaurantsByCity

FnSpec == FnInit /\ [][FnNext]_vars

-----------------------------------------------------------------------------
(* Spec: the session.  Streamlit runs the script from its first line to its   *)
(* last, each widget returning the value the sidebar holds for it; when the   *)
(* user changes a widget the script runs again in a fresh namespace.          *)

\* the files of a session: rows with distinct identifiers, provinces "LA" and
\* "CA", cities "X" and "Y" (restaurant 'A' in X, 'B' in Y), categories " A"
\* and "b"
SessionCells ==
    {<<province, city, categories>> :
        province \in {LA, Str(<<67, 65>>)},
        city \in {Str(<<88>>), Str(<<89>>)},
        categories \in {Str(<<32, 65>>), Str(<<98>>)}}

SessionRow(i, c) ==
    Row(Num(i), IF c[2] = Str(<<88>>) THEN Str(<<65>>) ELSE Str(<<66>>), c[2], c[1], c[3])

SessionFiles ==
    {OkFile([i \in 1..Len(cells) |-> SessionRow(i, cells[i])]) :
        cells \in SeqsUpTo(SessionCells, MaxSessionRows)}
    \cup FailedFiles

NoCall == Call("none", NoFile, <<>>, Unset, Unset)

Init ==
    /\ build \in Builds
    /\ file \in SessionFiles
    /\ pc = "load"
    /\ widgets = DefaultWidgets
    /\ ScriptUnset
    /\ call = NoCall
    /\ ret = <<>>
    /\ returned = FALSE

\* st.sidebar.selectbox: the value the sidebar holds when it is one of the
\* options, the first option otherwise
selectbox(options, value) == IF value \in Range(options) THEN value ELSE options[1]

\* st.sidebar.multiselect: the held values that are options, in option order
multiselect(options, values) == SelectSeq(options, LAMBDA x : x \in Range(values))

\* the rows of the table with the given province (lines 91 and 233)
rows_of_province(province) ==
    where(df.rows, [i \in 1..Len(df.rows) |-> eq(df.rows[i].province, province)])

province_options == <<All>> \o unique(column(df.rows, "province"))

category_options == unique(column(df.rows, "categories"))

\* line 61
Load ==
    /\ pc = "load"
    /\ df' = load_and_clean_data(file)
    /\ pc' = "select_province"
    /\ UNCHANGED <<build, file, widgets, harness, selected_province, filtered_df,
                   available_cities, selected_city, filtered_city_province_df,
                   province_counts, map_data, categories_selected, filtered_data,
                   category_counts, pie_data, type_counts, top_10_restaurants_data,
                   top_10_data>>

\* line 71 with the table absent: df['province'] raises TypeError, which nothing
\* catches, and the run ends there
SelectProvinceRaises ==
    /\ pc = "select_province"
    /\ df.isNone
    /\ pc' = "crashed"
    /\ UNCHANGED <<build, file, widgets, harness, script>>

\* line 71
SelectProvince ==
    /\ pc = "select_province"
    /\ ~df.isNone
    /\ selected_province' = selectbox(province_options, widgets.province)
    /\ pc' = "filter_province"
    /\ UNCHANGED <<build, file, widgets, harness, df, filtered_df,
                   available_cities, selected_city, filtered_city_province_df,
                   province_counts, map_data, categories_selected, filtered_data,
                   category_counts, pie_data, type_counts, top_10_restaurants_data,
                   top_10_data>>

\* line 83
FilterProvince ==
    /\ pc = "filter_province"
    /\ filtered_df' = filter_data_by_province(selected_province)
    /\ pc' = "select_city"
    /\ UNCHANGED <<build, file, widgets, harness, df, selected_province,
                   available_cities, selected_city, filtered_city_province_df,
                   province_counts, map_data, categories_selected, filtered_data,
                   category_counts, pie_data, type_counts, top_10_restaurants_data,
                   top_10_data>>

\* lines 86-95
SelectCity ==
    /\ pc = "select_city"
    /\ available_cities' =
          IF selected_province = All
          THEN unique(column(df.rows, "city"))
          ELSE unique(column(rows_of_province(selected_province), "city"))
    /\ selected_city' = selectbox(<<All>> \o available_cities', widgets.city)
    /\ pc' = "filter_city_province"
    /\ UNCHANGED <<build, file, widgets, harness, df, selected_province,
                   filtered_df, filtered_city_province_df,
                   province_counts, map_data, categories_selected, filtered_data,
                   category_counts, pie_data, type_counts, top_10_restaurants_data,
                   top_10_data>>

\* line 108
FilterCityProvince ==
    /\ pc = "filter_city_province"
    /\ filtered_city_province_df' =
          filter_data_by_city_province(filtered_df, selected_city, selected_province)
    /\ pc' = "province_counts"
    /\ UNCHANGED <<build, file, widgets, harness, df, selected_province,
                   filtered_df, available_cities, selected_city,
                   province_counts, map_data, categories_selected, filtered_data,
                   category_counts, pie_data, type_counts, top_10_restaurants_data,
                   top_10_data>>

\* lines 122-126
ProvinceCounts ==
    /\ pc = "province_counts"
    /\ province_counts' = province_counts_of(filtered_city_province_df, build)
    /\ map_data' = map_data_of(filtered_city_province_df, province_counts')
    /\ pc' = "select_categories"
    /\ UNCHANGED <<build, file, widgets, harness, df, selected_province,
                   filtered_df, available_cities, selected_city,
                   filtered_city_province_df, categories_selected, filtered_data,
                   category_counts, pie_data, type_counts, top_10_restaurants_data,
                   top_10_data>>

\* line 149
SelectCategories ==
    /\ pc = "select_categories"
    /\ categories_selected' = multiselect(category_options, widgets.categories)
    /\ pc' = "category_data"
    /\ UNCHANGED <<build, file, widgets, harness, df, selected_province,
                   filtered_df, available_cities, selected_city,
                   filtered_city_province_df, province_counts, map_data,
                   filtered_data, category_counts, pie_data, type_counts,
                   top_10_restaurants_data, top_10_data>>

\* lines 165-166
CategoryData ==
    /\ pc = "category_data"
    /\ filtered_data' = get_category_data(categories_selected, selected_province)
    /\ category_counts' = groupby_province_categories(filtered_data')
    /\ pc' = "pie_data"
    /\ UNCHANGED <<build, file, widgets, harness, df, selected_province,
                   filtered_df, available_cities, selected_city,
                   filtered_city_province_df, province_counts, map_data,
                   categories_selected, pie_data, type_counts,
                   top_10_restaurants_data, top_10_data>>

\* lines 190-191
PieData ==
    /\ pc = "pie_data"
    /\ pie_data' = get_pie_chart_data(categories_selected)
    /\ type_counts' = value_counts(pie_data', "categories", build)
    /\ pc' = "top_10"
    /\ UNCHANGED <<build, file, widgets, harness, df, selected_province,
                   filtered_df, available_cities, selected_city,
                   filtered_city_province_df, province_counts, map_data,
                   categories_selected, filtered_data, category_counts,
                   top_10_restaurants_data, top_10_data>>

\* lines 230-246
Top10 ==
    /\ pc = "top_10"
    /\ filtered_df' = IF selected_province = All
                      THEN df.rows
                      ELSE rows_of_province(selected_province)
    /\ top_10_restaurants_data' = get_top_10_restaurants(filtered_df', build)
    /\ top_10_data' = get_restaurants_by_top_10(filtered_df', top_10_restaurants_data')
    /\ pc' = "done"
    /\ UNCHANGED <<build, file, widgets, harness, df, selected_province,
                   available_cities, selected_city,
                   filtered_city_province_df, province_counts, map_data,
                   categories_selected, filtered_data, category_counts, pie_data,
                   type_counts>>

\* the script runs again from line 1 with nothing assigned
Rerun ==
    /\ pc' = "load"
    /\ df' = NoneDF
    /\ selected_province' = Unset
    /\ filtered_df' = <<>>
    /\ available_cities' = <<>>
    /\ selected_city' = Unset
    /\ filtered_city_province_df' = <<>>
    /\ province_counts' = <<>>
    /\ map_data' = <<>>
    /\ categories_selected' = <<>>
    /\ filtered_data' = <<>>
    /\ category_counts' = <<>>
    /\ pie_data' = <<>>
    /\ type_counts' = <<>>
    /\ top_10_restaurants_data' = <<>>
    /\ top_10_data' = <<>>
    /\ UNCHANGED <<build, file, harness>>

\* the user picks another province among the options of line 71
ChangeProvince ==
    /\ pc = "done"
    /\ \E p \in Range(province_options) \ {selected_province} :
          widgets' = [province |-> p, city |-> selected_city,
                      categories |-> categories_selected]
    /\ Rerun

\* the user picks another city among the options of line 95
ChangeCity ==
    /\ pc = "done"
    /\ \E c \in Range(<<All>> \o available_cities) \ {selected_city} :
          widgets' = [province |-> selected_province, city |-> c,
                      categories |-> categories_selected]
    /\ Rerun

\* the user changes the set of categories among the options of line 149
ChangeCategories ==
    /\ pc = "done"
    /\ \E cs \in SUBSET Range(category_options) :
          /\ cs # Range(categories_selected)
          /\ widgets' = [province |-> selected_province, city |-> selected_city,
                         categories |-> multiselect(category_options,
                                                    ascending(cs))]
    /\ Rerun

Next ==
    \/ Load
    \/ SelectProvinceRaises
    \/ SelectProvince
    \/ FilterProvince
    \/ SelectCity
    \/ FilterCityProvince
    \/ ProvinceCounts
    \/ SelectCategories
    \/ CategoryData
    \/ PieData
    \/ Top10
    \/ ChangeProvince
    \/ ChangeCity
    \/ ChangeCategories

Spec == Init /\ [][Next]_vars

-----------------------------------------------------------------------------
(* Properties of the functions (FnSpec) *)

Returned(fn) == returned /\ call.fn = fn

IsSpace(c) == c \in Whitespace

IsUpper(c) == c \in 65..90

\* t is s without its leading and trailing whitespace, stated without strip
Trimmed(s, t) ==
    \E i \in 1..(Len(s) + 1) : \E j \in 0..Len(s) :
        /\ \A k \in 1..(i - 1) : IsSpace(s[k])
        /\ \A k \in (j + 1)..Len(s) : IsSpace(s[k])
        /\ t = SubSeq(s, i, j)
        /\ t # <<>> => ~IsSpace(t[1]) /\ ~IsSpace(t[Len(t)])

\* t is s with its upper-case letters replaced by the lower-case ones
Lowered(s, t) ==
    /\ Len(t) = Len(s)
    /\ \A k \in 1..Len(s) : t[k] = IF IsUpper(s[k]) THEN s[k] + 32 ELSE s[k]

\* the text cells x and y are equal up to letter case
FoldEq(x, y) ==
    /\ x.kind = "str" /\ y.kind = "str"
    /\ Len(x.val) = Len(y.val)
    /\ \A k \in 1..Len(x.val) :
          (IF IsUpper(x.val[k]) THEN x.val[k] + 32 ELSE x.val[k])
          = (IF IsUpper(y.val[k]) THEN y.val[k] + 32 ELSE y.val[k])

\* the text cells x and y are the same text
SameText(x, y) == x.kind = "str" /\ y.kind = "str" /\ x.val = y.val

\* the last row of the file that carries the identifier id
LastWithId(rows, id) ==
    rows[CHOOSE i \in 1..Len(rows) :
            /\ rows[i].id = id
            /\ \A j \in (i + 1)..Len(rows) : rows[j].id # id]

\* C3: the cleaned table holds exactly one record per distinct identifier of the
\* file and no other record; the record of an identifier is the last row of the
\* file that has it (its category cell in the cleaned form), so no two records
\* share an identifier and a row with a unique identifier is kept.
C3_OneRecordPerIdLastWins ==
    (Returned("load_and_clean_data") /\ call.file.kind = "ok") =>
        LET rows == call.file.rows
            out == ret.rows
        IN  /\ ~ret.isNone
            /\ \A i \in 1..Len(rows) :
                  Cardinality({k \in 1..Len(out) : out[k].id = rows[i].id}) = 1
            /\ \A k \in 1..Len(out) :
                  /\ \E i \in 1..Len(rows) : rows[i].id = out[k].id
                  /\ LET last == LastWithId(rows, out[k].id)
                     IN  /\ out[k].id = last.id
                         /\ out[k].name = last.name
                         /\ out[k].city = last.city
                         /\ out[k].province = last.province
                         /\ out[k].categories = clean_cell(last.categories)

\* C3 witness: a file of three rows, two of which share an identifier and differ,
\* has been cleaned.
C3_Witness ==
    /\ Returned("load_and_clean_data")
    /\ call.file.kind = "ok"
    /\ Len(call.file.rows) = 3
    /\ call.file.rows[1].id = call.file.rows[3].id
    /\ call.file.rows[1].name # call.file.rows[3].name
    /\ call.file.rows[2].id # call.file.rows[1].id
    /\ Len(ret.rows) = 2

\* C9: in the cleaned table a category cell that was text in the file is the
\* file's text trimmed and then lower-cased, so it neither starts nor ends with
\* whitespace and holds no upper-case letter; a cell that was not text is the
\* file's cell.
C9_CategoryTrimmedLowered ==
    (Returned("load_and_clean_data") /\ call.file.kind = "ok") =>
        \A k \in 1..Len(ret.rows) :
            LET src == LastWithId(call.file.rows, ret.rows[k].id).categories
                c == ret.rows[k].categories
            IN  IF src.kind = "str"
                THEN /\ c.kind = "str"
                     /\ c.val # <<>> => ~IsSpace(c.val[1]) /\ ~IsSpace(c.val[Len(c.val)])
                     /\ \A n \in 1..Len(c.val) : ~IsUpper(c.val[n])
                     /\ \E t \in SeqsUpTo(TextChars, Len(src.val)) :
                           Trimmed(src.val, t) /\ Lowered(t, c.val)
                ELSE c = src

\* C9 witness: a category text with whitespace on both sides of an upper-case
\* letter has been cleaned.
C9_Witness ==
    /\ Returned("load_and_clean_data")
    /\ call.file.kind = "ok"
    /\ Len(call.file.rows) = 1
    /\ call.file.rows[1].categories = Str(<<32, 65, 9>>)
    /\ ret.rows[1].categories = Str(<<97>>)

\* C5 as claimed: with city "All" the result is the records whose province
\* matches the given one, otherwise those whose city and province both match,
\* the match being up to letter case in both branches.
C5_FoldedInBothBranches ==
    Returned("filter_data_by_city_province") =>
        ret = IF call.city = All
              THEN SelectSeq(call.d, LAMBDA r : FoldEq(r.province, call.province))
              ELSE SelectSeq(call.d, LAMBDA r : /\ FoldEq(r.city, call.city)
                                                /\ FoldEq(r.province, call.province))

\* C5 amended: with city "All" the result is the records whose province is
\* exactly the given text (letter case included); otherwise it is the records
\* whose city and province both equal the given ones up to letter case.
C5_ExactWhenAllFoldedOtherwise ==
    Returned("filter_data_by_city_province") =>
        ret = IF call.city = All
              THEN SelectSeq(call.d, LAMBDA r : SameText(r.province, call.province))
              ELSE SelectSeq(call.d, LAMBDA r : /\ FoldEq(r.city, call.city)
                                                /\ FoldEq(r.province, call.province))

\* C5 witness: a city other than "All" was given, and of two records one whose
\* city and province differ from the given ones only in letter case was returned
\* and the other was not.
C5_Witness ==
    /\ Returned("filter_data_by_city_province")
    /\ call.city # All
    /\ Len(call.d) = 2
    /\ Len(ret) = 1
    /\ ret[1].city # call.city
    /\ ret[1].province # call.province

SumCounts(entries) ==
    LET RECURSIVE Sum(_)
        Sum(i) == IF i > Len(entries) THEN 0 ELSE entries[i].count + Sum(i + 1)
    IN  Sum(1)

FirstSeen(d, x) == CHOOSE i \in 1..Len(d) : d[i].name = x /\ \A j \in 1..(i - 1) : d[j].name # x

NameCount(d, x) == Cardinality({i \in 1..Len(d) : d[i].name = x})

NamesOf(d) == {d[i].name : i \in 1..Len(d)}

Keys(entries) == {entries[i].key : i \in 1..Len(entries)}

\* C7 as claimed: names with equal counts are in the order in which they are
\* first met in the table, and of the names tied at the cut-off the ones met
\* first are kept.
C7_TiesInFirstSeenOrder ==
    Returned("get_top_10_restaurants") =>
        /\ \A i, j \in 1..Len(ret) :
              (i < j /\ ret[i].count = ret[j].count)
                  => FirstSeen(call.d, ret[i].key) < FirstSeen(call.d, ret[j].key)
        /\ \A x \in NamesOf(call.d) \ Keys(ret) : \A i \in 1..Len(ret) :
              NameCount(call.d, x) = ret[i].count
                  => FirstSeen(call.d, ret[i].key) < FirstSeen(call.d, x)

\* C7 amended: the order of names with equal counts does not follow the order of
\* the records: the result is the same for the table read backwards, and under a
\* stable sort names with equal counts are in ascending order of name, the
\* cut-off keeping the smallest names of those tied at it.
C7_TiesInNameOrder ==
    Returned("get_top_10_restaurants") =>
        /\ ret = get_top_10_restaurants(Reverse(call.d), build)
        /\ build = "stable" =>
              /\ \A i, j \in 1..Len(ret) :
                    (i < j /\ ret[i].count = ret[j].count)
                        => TextLess(ret[i].key.val, ret[j].key.val)
              /\ \A x \in NamesOf(call.d) \ Keys(ret) : \A i \in 1..Len(ret) :
                    NameCount(call.d, x) = ret[i].count
                        => TextLess(ret[i].key.val, x.val)

\* C7 witness: under a stable sort, a table that meets its names in descending
\* order has more than ten names, and a name left out has the count of a name
\* kept.
C7_Witness ==
    /\ Returned("get_top_10_restaurants")
    /\ build = "stable"
    /\ Len(call.d) > TopN
    /\ TextLess(call.d[2].name.val, call.d[1].name.val)
    /\ \E x \in NamesOf(call.d) \ Keys(ret) : NameCount(call.d, x) = ret[Len(ret)].count

\* C8: the top ten holds at most ten entries, each a distinct name of the table
\* with the number of its records, in non-increasing order of count; no name
\* left out has more records than a name kept; a second run on the same table
\* gives the same sequence.
C8_TopTenBoundedSortedRepeatable ==
    Returned("get_top_10_restaurants") =>
        /\ Len(ret) <= TopN
        /\ Len(ret) = Min(TopN, Cardinality(NamesOf(call.d)))
        /\ \A i, j \in 1..Len(ret) : ret[i].key = ret[j].key => i = j
        /\ \A i \in 1..Len(ret) :
              /\ ret[i].key \in NamesOf(call.d)
              /\ ret[i].count = NameCount(call.d, ret[i].key)
        /\ \A i \in 1..(Len(ret) - 1) : ret[i].count >= ret[i + 1].count
        /\ \A x \in NamesOf(call.d) \ Keys(ret) : \A i \in 1..Len(ret) :
              NameCount(call.d, x) <= ret[i].count
        /\ get_top_10_restaurants(call.d, build) = ret

\* C8 witness: a table with more than ten names, one of them twice among the
\* records, has been ranked: ten entries, the first with count two, the last
\* with count one.
C8_Witness ==
    /\ Returned("get_top_10_restaurants")
    /\ Cardinality(NamesOf(call.d)) > TopN
    /\ Len(ret) = TopN
    /\ ret[1].count = 2
    /\ ret[TopN].count = 1

-----------------------------------------------------------------------------
(* Properties of the session (Spec) *)

\* the positions of a run at which filtered_df holds the result of line 83
AfterFilterProvince ==
    {"select_city", "filter_city_province", "province_counts", "select_categories",
     "category_data", "pie_data", "top_10"}

\* the positions of a run at which both charts have their data
AfterCharts == {"top_10", "done"}

\* C1: with the province selector on "All", the province filter of line 83
\* returns the cleaned table unchanged.
C1_AllReturnsWholeTable ==
    (pc \in AfterFilterProvince /\ selected_province = All) => filtered_df = df.rows

\* C4: with the province selector on a province p ("LA" included), the province
\* filter of line 83 returns exactly the records whose province is p.
C4_ProvinceReturnsItsRecords ==
    (pc \in AfterFilterProvince /\ selected_province # All) =>
        filtered_df = SelectSeq(df.rows, LAMBDA r : SameText(r.province, selected_province))

\* C2: when loading data.csv fails, the table is absent and the run that follows
\* never ends in an error.
C2_FailedLoadRunsToEnd ==
    file.kind \in LoadFailures =>
        /\ pc # "crashed"
        /\ pc # "load" => df.isNone

\* what the bar chart shows for a cleaned table, a province and categories:
\* for each pair (province, category) present among the records of that province
\* and of those categories (all categories when none is selected), their number
BarChartOf(table, province, categories) ==
    LET shown == {i \in 1..Len(table) :
                     /\ SameText(table[i].province, province)
                     /\ categories = <<>> \/ table[i].categories \in Range(categories)}
    IN  {[province |-> table[i].province, categories |-> table[i].categories,
          count |-> Cardinality({j \in shown :
                                    /\ table[j].province = table[i].province
                                    /\ table[j].categories = table[i].categories})] :
            i \in shown}

\* what the pie chart shows for a cleaned table and categories
PieChartOf(table, categories) ==
    LET shown == {i \in 1..Len(table) :
                     categories = <<>> \/ table[i].categories \in Range(categories)}
    IN  {[key |-> table[i].categories,
          count |-> Cardinality({j \in shown : table[j].categories = table[i].categories})] :
            i \in shown}

\* C10: in every run of the script, whatever the earlier selections and whatever
\* the selected city, the counts of the bar chart are those of the cleaned table
\* for the selected province and categories, and the counts of the pie chart
\* those of the cleaned table for the selected categories.
C10_ChartsFromCleanedTableAndSelections ==
    pc \in AfterCharts =>
        /\ Range(category_counts)
              = BarChartOf(df.rows, selected_province, categories_selected)
        /\ Len(category_counts) = Cardinality(Range(category_counts))
        /\ Range(type_counts) = PieChartOf(df.rows, categories_selected)
        /\ Len(type_counts) = Cardinality(Range(type_counts))

\* C10 witness: after a change of city and of categories, a run ends with a city
\* selected whose records are fewer than the records the bar chart counts.
C10_Witness ==
    /\ pc = "done"
    /\ selected_city # All
    /\ categories_selected # <<>>
    /\ Len(filtered_city_province_df) = 1
    /\ Len(filtered_data) = 2
    /\ category_counts # <<>>

====
